---------------------------- MODULE Spec2Model ----------------------------
(* Model of the accounts application: the password-change form            *)
(* (accounts/forms.py, ValidatingPasswordChangeForm) and the user /        *)
(* profile tables with their post_save handler (accounts/models.py).       *)
(*                                                                         *)
(* Strings are sequences of character codes, so that str.lower(), the     *)
(* regular-expression character classes and the substring test `in` are    *)
(* computed on characters.                                                 *)
EXTENDS Integers, Sequences, FiniteSets, TLC

VARIABLES
    user,                \* request.user of the password-change form
    cleaned_data,        \* form.cleaned_data (old_password, new_password1)
    outcome,             \* what clean() produced: "None" before it has run
    pc,                  \* "unbound" -> "bound" -> "done"
    User_objects,        \* table of User rows, pk = index
    UserProfile_objects, \* table of UserProfile rows
    raised               \* exception raised by the last manager/form call

vars == <<user, cleaned_data, outcome, pc, User_objects, UserProfile_objects, raised>>

formVars == <<user, cleaned_data, outcome, pc>>
dbVars == <<User_objects, UserProfile_objects, raised>>

-----------------------------------------------------------------------------
(* Bounds and input alphabets *)

MaxCore == 3     \* longest free-form prefix of an entered password
MaxUsers == 2    \* number of rows the User table may grow to

MIN_LENGTH == 14

\* 'a', 'A', '1', '@', '#'
Chars == {97, 65, 49, 64, 35}

\* 'x', 'X'
Fillers == {120, 88}

Repeat(c, n) == [i \in 1..n |-> c]

Cores == UNION {[1..k -> Chars] : k \in 1..MaxCore}

PadLens == {0} \cup ((MIN_LENGTH - MaxCore - 1)..(MIN_LENGTH - 1))

\* Entered new passwords: a free prefix followed by padding, which gives
\* every length from 1 to MaxCore and from MIN_LENGTH - MaxCore to
\* MIN_LENGTH + MaxCore - 1.
NewPasswords == {core \o Repeat(f, n) : core \in Cores, f \in Fillers, n \in PadLens}

\* "A1@xxxxxxxxxxx" (14 characters, satisfies every rule) and "a"
StoredPasswords == {<<65, 49, 64>> \o Repeat(120, MIN_LENGTH - 3), <<97>>}

OldPasswords == StoredPasswords

\* "aa", "A1"
Usernames == {<<97, 97>>, <<65, 49>>}

\* "", "aX"
FirstNames == {<<>>, <<97, 88>>}

\* "", "a@"
LastNames == {<<>>, <<97, 64>>}

-----------------------------------------------------------------------------
(* Library functions used by the code *)

\* a comparison that forgets to fold case
lower_caseSensitive(s) == s

\* str.lower() on ASCII
lower(s) == [i \in 1..Len(s) |-> IF s[i] \in 65..90 THEN s[i] + 32 ELSE s[i]]

\* `sub in s` on str: the empty string is contained in every string
contains(sub, s) ==
    \E k \in 0..(Len(s) - Len(sub)) : \A i \in 1..Len(sub) : s[k + i] = sub[i]

\* re.search of a one-or-more repetition of a character class; the entered
\* characters are ASCII, where \d is 0-9
re_search(class, s) == \E i \in 1..Len(s) : s[i] \in class

LowerClass == 97..122
UpperClass == 65..90
DigitClass == 48..57
SpecialClass == {64, 35, 36}

\* AbstractBaseUser.set_password / check_password: the stored value is a
\* one-way image of the raw password, compared through the same image.
make_password(raw) == [i \in 1..Len(raw) |-> (raw[Len(raw) + 1 - i] + 7) % 128]

check_password(u, raw) == make_password(raw) = u.password

-----------------------------------------------------------------------------
(* ValidatingPasswordChangeForm *)

Outcomes == {"Accept", "WrongOldPassword", "PasswordUnchanged", "MissingCaseMix",
             "TooShort", "MissingDigit", "MissingSpecialChar",
             "ContainsIdentityFragment"}

\* the equality test done before the old password is verified
clean_result_unchangedFirst(u, new_password, old_password) ==
    IF new_password = old_password THEN "PasswordUnchanged"
    ELSE IF ~check_password(u, old_password) THEN "WrongOldPassword"
    ELSE IF ~re_search(LowerClass, new_password) \/ ~re_search(UpperClass, new_password)
        THEN "MissingCaseMix"
    ELSE IF Len(new_password) < MIN_LENGTH THEN "TooShort"
    ELSE IF ~re_search(DigitClass, new_password) THEN "MissingDigit"
    ELSE IF ~re_search(SpecialClass, new_password) THEN "MissingSpecialChar"
    ELSE IF \/ contains(lower(u.first_name), lower(new_password))
            \/ contains(lower(u.last_name), lower(new_password))
            \/ contains(lower(u.username), lower(new_password))
        THEN "ContainsIdentityFragment"
    ELSE "Accept"

\* the equality test left out
clean_result_noUnchanged(u, new_password, old_password) ==
    IF ~check_password(u, old_password) THEN "WrongOldPassword"
    ELSE IF ~re_search(LowerClass, new_password) \/ ~re_search(UpperClass, new_password)
        THEN "MissingCaseMix"
    ELSE IF Len(new_password) < MIN_LENGTH THEN "TooShort"
    ELSE IF ~re_search(DigitClass, new_password) THEN "MissingDigit"
    ELSE IF ~re_search(SpecialClass, new_password) THEN "MissingSpecialChar"
    ELSE IF \/ contains(lower(u.first_name), lower(new_password))
            \/ contains(lower(u.last_name), lower(new_password))
            \/ contains(lower(u.username), lower(new_password))
        THEN "ContainsIdentityFragment"
    ELSE "Accept"

\* the case rule written with `and`: one kind of letter is enough
clean_result_caseAnd(u, new_password, old_password) ==
    IF ~check_password(u, old_password) THEN "WrongOldPassword"
    ELSE IF new_password = old_password THEN "PasswordUnchanged"
    ELSE IF ~re_search(LowerClass, new_password) /\ ~re_search(UpperClass, new_password)
        THEN "MissingCaseMix"
    ELSE IF Len(new_password) < MIN_LENGTH THEN "TooShort"
    ELSE IF ~re_search(DigitClass, new_password) THEN "MissingDigit"
    ELSE IF ~re_search(SpecialClass, new_password) THEN "MissingSpecialChar"
    ELSE IF \/ contains(lower(u.first_name), lower(new_password))
            \/ contains(lower(u.last_name), lower(new_password))
            \/ contains(lower(u.username), lower(new_password))
        THEN "ContainsIdentityFragment"
    ELSE "Accept"

\* the length rule written with `<=`
clean_result_lengthOffByOne(u, new_password, old_password) ==
    IF ~check_password(u, old_password) THEN "WrongOldPassword"
    ELSE IF new_password = old_password THEN "PasswordUnchanged"
    ELSE IF ~re_search(LowerClass, new_password) \/ ~re_search(UpperClass, new_password)
        THEN "MissingCaseMix"
    ELSE IF Len(new_password) <= MIN_LENGTH THEN "TooShort"
    ELSE IF ~re_search(DigitClass, new_password) THEN "MissingDigit"
    ELSE IF ~re_search(SpecialClass, new_password) THEN "MissingSpecialChar"
    ELSE IF \/ contains(lower(u.first_name), lower(new_password))
            \/ contains(lower(u.last_name), lower(new_password))
            \/ contains(lower(u.username), lower(new_password))
        THEN "ContainsIdentityFragment"
    ELSE "Accept"

clean_result(u, new_password, old_password) ==
    IF ~check_password(u, old_password) THEN "WrongOldPassword"
    ELSE IF new_password = old_password THEN "PasswordUnchanged"
    ELSE IF ~re_search(LowerClass, new_password) \/ ~re_search(UpperClass, new_password)
        THEN "MissingCaseMix"
    ELSE IF Len(new_password) < MIN_LENGTH THEN "TooShort"
    ELSE IF ~re_search(DigitClass, new_password) THEN "MissingDigit"
    ELSE IF ~re_search(SpecialClass, new_password) THEN "MissingSpecialChar"
    ELSE LET user_first_name == lower(u.first_name)
             user_last_name == lower(u.last_name)
             user_username == lower(u.username)
         IN IF \/ contains(user_first_name, lower(new_password))
               \/ contains(user_last_name, lower(new_password))
               \/ contains(user_username, lower(new_password))
            THEN "ContainsIdentityFragment"
            ELSE "Accept"

\* The form is constructed for a request and bound to the submitted data.
ValidatingPasswordChangeForm_init ==
    /\ pc = "unbound"
    /\ \E old \in OldPasswords, new \in NewPasswords :
          cleaned_data' = [old_password |-> old, new_password1 |-> new]
    /\ pc' = "bound"
    /\ UNCHANGED <<user, outcome, dbVars>>

\* a validator that also stores the accepted password
clean_setsPassword ==
    /\ pc = "bound"
    /\ outcome' = clean_result(user, cleaned_data.new_password1, cleaned_data.old_password)
    /\ user' = IF outcome' = "Accept"
               THEN [user EXCEPT !.password = make_password(cleaned_data.new_password1)]
               ELSE user
    /\ pc' = "done"
    /\ UNCHANGED <<cleaned_data, dbVars>>

clean ==
    /\ pc = "bound"
    /\ outcome' = clean_result(user, cleaned_data.new_password1, cleaned_data.old_password)
    /\ pc' = "done"
    /\ UNCHANGED <<user, cleaned_data, dbVars>>

NoData == [old_password |-> <<>>, new_password1 |-> <<>>]

Init ==
    /\ \E un \in Usernames, fn \in FirstNames, ln \in LastNames, pw \in StoredPasswords :
          user = [username |-> un, first_name |-> fn, last_name |-> ln,
                  password |-> make_password(pw)]
    /\ cleaned_data = NoData
    /\ outcome = "None"
    /\ pc = "unbound"
    /\ User_objects = <<>>
    /\ UserProfile_objects = <<>>
    /\ raised = "None"

Next == ValidatingPasswordChangeForm_init \/ clean

Spec == Init /\ [][Next]_vars

-----------------------------------------------------------------------------
(* accounts/models.py: UserManager, User, UserProfile, post_save handler *)

\* An e-mail address is its local part and its domain; "" is the empty pair.
\* "a@x", "a@X" (the same address once normalised), "1@x", "" (missing)
Emails == {[local |-> <<97>>, domain |-> <<120>>],
           [local |-> <<97>>, domain |-> <<88>>],
           [local |-> <<49>>, domain |-> <<120>>],
           [local |-> <<>>, domain |-> <<>>]}

\* A missing username (None) is the empty sequence.
UsernameArgs == Usernames \cup {<<>>}

\* BaseUserManager.normalize_email lowercases the domain part.
normalize_email(email) == [email EXCEPT !.domain = lower(@)]

\* The tables and the exception state threaded through a call; ret is the pk
\* of the instance the call returns (0 when it raised).
DbState == [users |-> User_objects, profiles |-> UserProfile_objects,
            raised |-> "None", ret |-> 0]

\* UserProfile.objects.create(user=instance): user is a OneToOneField, so a
\* second profile row for the same user violates its unique constraint.
UserProfile_objects_create(st, pk) ==
    IF \E i \in 1..Len(st.profiles) : st.profiles[i].user = pk
    THEN [st EXCEPT !.raised = "IntegrityError(UserProfile.user)", !.ret = 0]
    ELSE [st EXCEPT !.profiles = Append(@, [user |-> pk])]

\* a handler that ignores `created`
create_user_profile_everySave(st, instance, created) ==
    UserProfile_objects_create(st, instance)

create_user_profile(st, instance, created) ==
    IF created THEN UserProfile_objects_create(st, instance) ELSE st

\* username and email are unique=True
UniqueViolation(rows, pk, row) ==
    \E i \in 1..Len(rows) :
        /\ i # pk
        /\ rows[i].username = row.username \/ rows[i].email = row.email

\* Model.save(): INSERT when the instance has no pk (pk = 0), UPDATE
\* otherwise, then the post_save signal with created set accordingly.
save(st, pk, row) ==
    IF UniqueViolation(st.users, pk, row)
    THEN [st EXCEPT !.raised = "IntegrityError(User)", !.ret = 0]
    ELSE IF pk = 0
    THEN LET inserted == [st EXCEPT !.users = Append(@, row),
                                    !.ret = Len(st.users) + 1]
         IN create_user_profile(inserted, inserted.ret, TRUE)
    ELSE create_user_profile([st EXCEPT !.users[pk] = row, !.ret = pk], pk, FALSE)

create_user(st, first_name, last_name, email, username, password) ==
    IF email.local = <<>> /\ email.domain = <<>>
    THEN [st EXCEPT !.raised = "ValueError", !.ret = 0]
    ELSE IF username = <<>>
    THEN [st EXCEPT !.raised = "ValueError", !.ret = 0]
    ELSE save(st, 0, [first_name |-> first_name,
                      last_name |-> last_name,
                      email |-> normalize_email(email),
                      username |-> username,
                      password |-> make_password(password),
                      is_staff |-> FALSE,
                      is_superuser |-> FALSE])

create_superuser(st, first_name, last_name, email, password, username) ==
    LET created == create_user(st, first_name, last_name, email, username, password)
    IN IF created.raised # "None" THEN created
       ELSE save(created, created.ret,
                 [created.users[created.ret] EXCEPT !.is_staff = TRUE,
                                                    !.is_superuser = TRUE])

\* UserUpdateForm.save(): ModelForm over first_name and last_name of a saved
\* user, which ends in instance.save().
UserUpdateForm_result(st, pk, first_name, last_name) ==
    save(st, pk, [st.users[pk] EXCEPT !.first_name = first_name,
                                      !.last_name = last_name])

Commit(st) ==
    /\ User_objects' = st.users
    /\ UserProfile_objects' = st.profiles
    /\ raised' = st.raised
    /\ UNCHANGED formVars

UserManager_create_user ==
    /\ Len(User_objects) < MaxUsers
    /\ \E fn \in FirstNames, ln \in LastNames, em \in Emails,
          un \in UsernameArgs, pw \in StoredPasswords :
          Commit(create_user(DbState, fn, ln, em, un, pw))

UserManager_create_superuser ==
    /\ Len(User_objects) < MaxUsers
    /\ \E fn \in FirstNames, ln \in LastNames, em \in Emails,
          un \in UsernameArgs, pw \in StoredPasswords :
          Commit(create_superuser(DbState, fn, ln, em, pw, un))

UserUpdateForm_save ==
    \E pk \in 1..Len(User_objects), fn \in FirstNames, ln \in LastNames :
        Commit(UserUpdateForm_result(DbState, pk, fn, ln))

NextUsers == UserManager_create_user \/ UserManager_create_superuser \/ UserUpdateForm_save

SpecUsers == Init /\ [][NextUsers]_vars

-----------------------------------------------------------------------------
(* The rules of the password policy, stated on the submitted data          *)
(* independently of the code above.                                         *)

new == cleaned_data.new_password1
old == cleaned_data.old_password

Lowered(s) == [i \in 1..Len(s) |-> IF s[i] >= 65 /\ s[i] <= 90 THEN s[i] + 32 ELSE s[i]]

Occurs(sub, s) ==
    \E k \in 1..(Len(s) - Len(sub) + 1) : SubSeq(s, k, k + Len(sub) - 1) = sub

HasCharIn(s, lo, hi) == \E i \in DOMAIN s : s[i] >= lo /\ s[i] <= hi

OldVerifies == user.password = make_password(old)
Unchanged == new = old
CaseMix == HasCharIn(new, 97, 122) /\ HasCharIn(new, 65, 90)
LongEnough == Len(new) >= 14
HasDigit == HasCharIn(new, 48, 57)
HasSpecial == \E i \in DOMAIN new : new[i] \in {64, 35, 36}

IdentityFields == {user.username, user.first_name, user.last_name}

\* rule 7 as specified: an empty field is skipped
Fragment == \E f \in IdentityFields : f # <<>> /\ Occurs(Lowered(f), Lowered(new))

\* containment of any field, the empty one included
AnyFieldContained == \E f \in IdentityFields : f = <<>> \/ Occurs(Lowered(f), Lowered(new))

PassesRules1To6 ==
    OldVerifies /\ ~Unchanged /\ CaseMix /\ LongEnough /\ HasDigit /\ HasSpecial

FirstViolated ==
    IF ~OldVerifies THEN "WrongOldPassword"
    ELSE IF Unchanged THEN "PasswordUnchanged"
    ELSE IF ~CaseMix THEN "MissingCaseMix"
    ELSE IF ~LongEnough THEN "TooShort"
    ELSE IF ~HasDigit THEN "MissingDigit"
    ELSE IF ~HasSpecial THEN "MissingSpecialChar"
    ELSE IF Fragment THEN "ContainsIdentityFragment"
    ELSE "Accept"

Done == pc = "done"

-----------------------------------------------------------------------------
(* Claims *)

\* C1: clean reports the reason of the first rule, in the order old-password
\* correctness, unchanged, case mix, length, digit, special character,
\* identity fragment, that the inputs violate.
C1_FirstViolatedRuleReported == Done => outcome = FirstViolated

\* C2: when the old password does not verify, the result is WrongOldPassword
\* whatever the new password is.
C2_WrongOldPasswordFirst == (Done /\ ~OldVerifies) => outcome = "WrongOldPassword"

C2_Witness ==
    /\ Done /\ ~OldVerifies /\ Unchanged /\ ~CaseMix /\ ~LongEnough
    /\ outcome = "WrongOldPassword"

\* C3: when the old password verifies and the new password equals it, the
\* result is PasswordUnchanged, whether or not the password satisfies the
\* later rules.
C3_UnchangedRejected == (Done /\ OldVerifies /\ Unchanged) => outcome = "PasswordUnchanged"

C3_Witness ==
    /\ Done /\ OldVerifies /\ Unchanged
    /\ CaseMix /\ LongEnough /\ HasDigit /\ HasSpecial /\ ~Fragment
    /\ outcome = "PasswordUnchanged"

\* C4: with an empty first_name or last_name, a new password that passes
\* rules 1 to 6 and contains no non-empty identity field is accepted, not
\* rejected with ContainsIdentityFragment.
C4_EmptyFieldSkipped ==
    (/\ Done
     /\ user.first_name = <<>> \/ user.last_name = <<>>
     /\ PassesRules1To6
     /\ ~Fragment) => outcome = "Accept"

\* C5: every fully compliant request (rules 1 to 6 pass, no identity
\* fragment) is accepted.
C5_CompliantAccepted == (Done /\ PassesRules1To6 /\ ~Fragment) => outcome = "Accept"

\* C6: Accept is returned only when the old password verified, the new one
\* differs, has the case mix, the length, a digit, a special character and
\* contains no non-empty identity field case-insensitively.
C6_AcceptImpliesCompliant ==
    (Done /\ outcome = "Accept") => (PassesRules1To6 /\ ~Fragment)

C6_Witness == Done /\ outcome = "Accept" /\ Len(new) = 14

\* C7: a request that passes rules 1 to 6 and whose lowercased new password
\* contains the lowercased username, first_name or last_name is rejected
\* with ContainsIdentityFragment, whatever the letter case on either side.
C7_FragmentCaseInsensitive ==
    (Done /\ PassesRules1To6 /\ AnyFieldContained) => outcome = "ContainsIdentityFragment"

\* a field stored with an uppercase letter matched by a password that only
\* has it in lowercase, no field being empty
C7_Witness ==
    /\ Done /\ PassesRules1To6
    /\ \A f \in IdentityFields : f # <<>>
    /\ \E f \in IdentityFields :
          /\ Occurs(Lowered(f), Lowered(new))
          /\ ~Occurs(f, new)
          /\ ~Occurs(Lowered(f), new)
          /\ ~Occurs(f, Lowered(new))
    /\ outcome = "ContainsIdentityFragment"

\* C8: after rules 1 to 3 pass, a new password of length 13 or less is
\* rejected with TooShort, and one of length exactly 14 never is.
C8_MinLengthIs14 ==
    /\ (Done /\ OldVerifies /\ ~Unchanged /\ CaseMix /\ Len(new) <= 13)
          => outcome = "TooShort"
    /\ (Done /\ Len(new) = 14) => outcome # "TooShort"

C8_Witness ==
    /\ Done /\ OldVerifies /\ ~Unchanged /\ CaseMix /\ Len(new) = 13
    /\ HasDigit /\ HasSpecial
    /\ outcome = "TooShort"

\* C9: clean changes neither the identity (username, first_name, last_name,
\* stored password hash) nor cleaned_data nor the tables, and what it leaves
\* behind is a reason, not a password.
C9_CleanHasNoSideEffect ==
    [][(pc = "bound" /\ pc' = "done") =>
          /\ user' = user
          /\ cleaned_data' = cleaned_data
          /\ UNCHANGED dbVars
          /\ outcome' \in Outcomes]_vars

C9_Witness == Done /\ outcome = "Accept" /\ user.password # make_password(new)

\* C10: every saved user has exactly one UserProfile, and no save raises on
\* the profile's one-to-one constraint.
ProfilesOf(pk) == {i \in 1..Len(UserProfile_objects) : UserProfile_objects[i].user = pk}

C10_OneProfilePerUser ==
    /\ \A pk \in 1..Len(User_objects) : Cardinality(ProfilesOf(pk)) = 1
    /\ \A i \in 1..Len(UserProfile_objects) :
          UserProfile_objects[i].user \in 1..Len(User_objects)
    /\ raised # "IntegrityError(UserProfile.user)"

\* a superuser (saved twice) and another user, one profile each
C10_Witness ==
    /\ Len(User_objects) >= 2
    /\ \E pk \in 1..Len(User_objects) : User_objects[pk].is_superuser
    /\ \A pk \in 1..Len(User_objects) : Cardinality(ProfilesOf(pk)) = 1

=============================================================================
